---- MODULE Spec2Model ----
(***************************************************************************)
(* Flight-data aggregation engine of Halo-Engine: FlightTrackingService    *)
(* (cache, quota tracker, token manager, provider adapters, waterfall)     *)
(* and the AirlineDatabase it normalizes identifiers with.                 *)
(*                                                                         *)
(* Strings the code takes apart (identifiers, callsigns, airline codes)    *)
(* are sequences of one-character strings.  A JavaScript null/undefined is *)
(* the empty sequence Null, a present value v is <<v>>.  Time is counted   *)
(* in minutes.                                                             *)
(***************************************************************************)
EXTENDS Integers, Sequences, FiniteSets, TLC

\* ------------------------------------------------------------------ bounds
\* The clock stops ticking at MaxTime (minutes).
MaxTime == 5
\* A calendar month, scaled down to MonthLen minutes.
MonthLen == 4
\* Initial quota counts range over limit - MaxHeadroom .. limit.
MaxHeadroom == 1
\* In SpecTimed and SpecQuota the service is called at most MaxCalls times.
MaxCalls == 3
\* In SpecStatus the instants of a flight's schedule are at most MaxInstant.
MaxInstant == 3

\* ------------------------------------------------------------ JS values
Null == <<>>
Some(v) == <<v>>
Val(o) == o[1]

LowerCs == <<"a","b","c","d","e","f","g","h","i","j","k","l","m",
             "n","o","p","q","r","s","t","u","v","w","x","y","z">>
UpperCs == <<"A","B","C","D","E","F","G","H","I","J","K","L","M",
             "N","O","P","Q","R","S","T","U","V","W","X","Y","Z">>
Digits == {"0","1","2","3","4","5","6","7","8","9"}
Letters == {UpperCs[i] : i \in 1..26}

\* the characters identifiers and callsigns are written with
Chars == Letters \cup {LowerCs[i] : i \in 1..26} \cup Digits \cup {" ", "-"}
upperChar ==
  [c \in Chars |->
     IF \E k \in 1..26 : LowerCs[k] = c
     THEN UpperCs[CHOOSE k \in 1..26 : LowerCs[k] = c]
     ELSE c]

\* String.prototype.toUpperCase
toUpperCase(s) == [i \in 1..Len(s) |-> upperChar[s[i]]]

\* String.prototype.trim
RECURSIVE trimStart(_)
trimStart(s) == IF s # <<>> /\ s[1] = " " THEN trimStart(Tail(s)) ELSE s
RECURSIVE trimEnd(_)
trimEnd(s) ==
  IF s # <<>> /\ s[Len(s)] = " " THEN trimEnd(SubSeq(s, 1, Len(s) - 1)) ELSE s
trim(s) == trimEnd(trimStart(s))

\* String.prototype.substring(from) and substring(from, to), 0-based
substringFrom(s, from) == SubSeq(s, from + 1, Len(s))
substring(s, from, to) ==
  SubSeq(s, from + 1, IF to < Len(s) THEN to ELSE Len(s))

\* String.prototype.includes / startsWith
includes(hay, needle) ==
  \E i \in 0..(Len(hay) - Len(needle)) : SubSeq(hay, i + 1, i + Len(needle)) = needle
startsWith(hay, needle) ==
  Len(needle) <= Len(hay) /\ SubSeq(hay, 1, Len(needle)) = needle

\* --------------------------------------------------------- AirlineDatabase
\* airlineData: the (iata, icao) pairs of the registry.
airlineData ==
  { <<<<"A","I">>, <<"A","I","C">>>>,
    <<<<"6","E">>, <<"I","G","O">>>>,
    <<<<"S","G">>, <<"S","E","J">>>>,
    <<<<"U","K">>, <<"V","T","I">>>>,
    <<<<"G","8">>, <<"G","O","W">>>>,
    <<<<"I","X">>, <<"A","X","B">>>>,
    <<<<"I","5">>, <<"I","A","D">>>>,
    <<<<"E","K">>, <<"U","A","E">>>>,
    <<<<"Q","R">>, <<"Q","T","R">>>>,
    <<<<"E","Y">>, <<"E","T","D">>>>,
    <<<<"S","V">>, <<"S","V","A">>>>,
    <<<<"G","F">>, <<"G","F","A">>>>,
    <<<<"L","H">>, <<"D","L","H">>>>,
    <<<<"B","A">>, <<"B","A","W">>>>,
    <<<<"A","F">>, <<"A","F","R">>>>,
    <<<<"K","L">>, <<"K","L","M">>>>,
    <<<<"L","X">>, <<"S","W","R">>>>,
    <<<<"O","S">>, <<"A","U","A">>>>,
    <<<<"S","N">>, <<"B","E","L">>>>,
    <<<<"I","B">>, <<"I","B","E">>>>,
    <<<<"T","P">>, <<"T","A","P">>>>,
    <<<<"T","K">>, <<"T","H","Y">>>>,
    <<<<"A","A">>, <<"A","A","L">>>>,
    <<<<"D","L">>, <<"D","A","L">>>>,
    <<<<"U","A">>, <<"U","A","L">>>>,
    <<<<"W","N">>, <<"S","W","A">>>>,
    <<<<"B","6">>, <<"J","B","U">>>>,
    <<<<"A","C">>, <<"A","C","A">>>>,
    <<<<"S","Q">>, <<"S","I","A">>>>,
    <<<<"C","X">>, <<"C","P","A">>>>,
    <<<<"J","L">>, <<"J","A","L">>>>,
    <<<<"N","H">>, <<"A","N","A">>>>,
    <<<<"K","E">>, <<"K","A","L">>>>,
    <<<<"O","Z">>, <<"A","A","R">>>>,
    <<<<"T","G">>, <<"T","H","A">>>>,
    <<<<"M","H">>, <<"M","A","S">>>>,
    <<<<"G","A">>, <<"G","I","A">>>>,
    <<<<"Q","F">>, <<"Q","F","A">>>>,
    <<<<"V","A">>, <<"V","O","Z">>>>,
    <<<<"J","Q">>, <<"J","S","T">>>>,
    <<<<"F","R">>, <<"R","Y","R">>>>,
    <<<<"U","2">>, <<"E","Z","Y">>>>,
    <<<<"W","6">>, <<"W","Z","Z">>>>,
    <<<<"V","Y">>, <<"V","L","G">>>>,
    <<<<"C","A">>, <<"C","C","A">>>>,
    <<<<"C","Z">>, <<"C","S","N">>>>,
    <<<<"M","U">>, <<"C","E","S">>>>,
    <<<<"H","U">>, <<"C","H","H">>>> }

\* this.airlines.get(code): the record indexed under its IATA or its ICAO code
airlinesGet(code) ==
  IF \E a \in airlineData : a[1] = code \/ a[2] = code
  THEN Some(CHOOSE a \in airlineData : a[1] = code \/ a[2] = code)
  ELSE Null

\* AirlineDatabase.getAirline(code): exact, then 2-letter, then 3-letter prefix
getAirline(code) ==
  IF code = <<>> THEN Null
  ELSE LET upperCode == trim(toUpperCase(code))
           exact == airlinesGet(upperCode)
           two == IF exact = Null /\ Len(upperCode) >= 2
                  THEN airlinesGet(substring(upperCode, 0, 2)) ELSE exact
           three == IF two = Null /\ Len(upperCode) >= 3
                    THEN airlinesGet(substring(upperCode, 0, 3)) ELSE two
       IN three

\* ------------------------------------------------- FlightTrackingService
\* this.cacheTTL = 5 * 60 * 1000 ms
cacheTTL == 5
\* this.aviationStackUsage.limit
limit == 100
\* the OAuth2 token's default lifetime (1800 s) and the refresh buffer (300 s)
DefaultExpiresIn == 30
RefreshBuffer == 5

\* process.env.AVIATIONSTACK_API_KEY || '<built-in key>'
PlaceholderKey == "your_api_key_here"
BuiltInKey == "a81fec64c6fda4a44a703cd582b7bdbb"
apiKeyOf(env) == IF env = Null THEN BuiltInKey ELSE Val(env)

VARIABLES
  now,        \* Date.now(), minutes
  cache,      \* this.cache: key -> Null | <<[data, timestamp]>>
  usage,      \* this.aviationStackUsage: [count, resetDate]
  apiKey,     \* this.apiKey
  creds,      \* openSkyClientId and openSkyClientSecret are both set
  token,      \* [accessToken, expiry]: openSkyAccessToken, openSkyTokenExpiry
  pc,         \* per call: "idle", "A_tok", "A_get", "B_get", "done", "raised"
  arg,        \* per call: the flightNumber argument
  aIdx,       \* per call: which of the 4 OpenSky requests is awaited
  auth,       \* per call: the Authorization token of the awaited OpenSky request
              \* (config.headers of makeOpenSkyRequest, gone when it returns)
  osr,        \* per call: openSkyResult
  bForm,      \* per call: 1 = getFlightFromAviationStack(normalized), 2 = (original)
  bIdx,       \* per call: which of the 8 searchVariations is awaited
  result,     \* per call: the record returned
  hit,        \* per call: the record came from the cache
  reqs,       \* per call: whether it has sent a request to A, to B, to the
              \* token endpoint: [A, B, tok]
  yielded,    \* per call: the providers that have answered with a flight
  calls,      \* calls of the service made so far
  stats,      \* what the latest getUsageStats() returned
  last,       \* history: per identifier, the latest return of getFlightInfo since
              \* the cache was cleared: [data, at, stored], `stored` the time of
              \* the latest return that was not served from the cache
  answered,   \* history, per call: how the request that the latest step of the
              \* call saw settle did so: "tok:ok", "tok:failed" (token endpoint),
              \* "B:ok", "B:limit" (HTTP 429 or 402), "B:failed" (AviationStack);
              \* else "none"
  exhaustedAt,\* history: Null while count < limit, else <<the time at which the
              \* count was first found at or above the limit>>
  probe,      \* the latest application by a caller of a function of the
              \* service or of a registry: Null | <<[f, x, y, of]>>, f the
              \* function, y its result for x, `of` Null or <<the earlier result
              \* that x was taken from, or that y repeats>>
  routes      \* RouteDatabase.routes: carrier code -> list of routes

vars == <<now, cache, usage, apiKey, creds, token,
          pc, arg, aIdx, auth, osr, bForm, bIdx, result, hit, reqs, yielded,
          calls, stats, last, answered, exhaustedAt, probe, routes>>

\* the getFlightInfo calls that can be in progress at once
Procs == {1, 2}

\* ---- identifiers
S_AI101 == <<"A","I","1","0","1">>
S_AIC101 == <<"A","I","C","1","0","1">>
S_QF104 == <<"Q","F","1","0","4">>
S_QFA104 == <<"Q","F","A","1","0","4">>
\* the identifiers handed to getFlightInfo
Ids == { S_AIC101, <<" ","a","i","1","0","1">>, S_QF104 }

\* normalizeFlightNumber, the airline's ICAO code put before the number
normalizeFlightNumberIcao(flightNumber) ==
  LET normalized == trim(toUpperCase(flightNumber))
      isIcaoShape == /\ Len(normalized) >= 4
                     /\ \A i \in 1..3 : normalized[i] \in Letters
                     /\ normalized[4] \in Digits
      icaoCode == substring(normalized, 0, 3)
      flightNum == substringFrom(normalized, 3)
      airline == getAirline(icaoCode)
  IN IF isIcaoShape /\ airline # Null
     THEN [original |-> normalized, normalized |-> Val(airline)[2] \o flightNum,
           isIcao |-> TRUE]
     ELSE [original |-> normalized, normalized |-> normalized, isIcao |-> FALSE]

\* normalizeFlightNumber(flightNumber)
normalizeFlightNumber(flightNumber) ==
  LET normalized == trim(toUpperCase(flightNumber))
      isIcaoShape == /\ Len(normalized) >= 4
                     /\ \A i \in 1..3 : normalized[i] \in Letters
                     /\ normalized[4] \in Digits
      icaoCode == substring(normalized, 0, 3)
      flightNum == substringFrom(normalized, 3)
      airline == getAirline(icaoCode)
  IN IF isIcaoShape /\ airline # Null
     THEN [original |-> normalized, normalized |-> Val(airline)[1] \o flightNum,
           isIcao |-> TRUE]
     ELSE [original |-> normalized, normalized |-> normalized, isIcao |-> FALSE]

\* normalizeFlightNumber over the identifiers of the model
Norm == [x \in Ids |-> normalizeFlightNumber(x)]

\* the cache key `flight:${flightNumber.toUpperCase()}`
cacheKey(flightNumber) == toUpperCase(flightNumber)

\* every key a call can read or write
Keys == UNION { { cacheKey(Norm[x].original), cacheKey(Norm[x].normalized),
                  cacheKey(x) } : x \in Ids }

\* the age in minutes compared with a TTL read as seconds
getCachedFlightUnits(c, flightNumber, t) ==
  LET k == cacheKey(flightNumber)
      cached == c[k]
  IN IF cached # Null /\ (t - Val(cached).timestamp) * 60 < cacheTTL
     THEN [ret |-> Some(Val(cached).data), cache |-> c]
     ELSE IF cached # Null
          THEN [ret |-> Null, cache |-> [c EXCEPT ![k] = Null]]
          ELSE [ret |-> Null, cache |-> c]

\* an entry still served at the age of cacheTTL
getCachedFlightInclusive(c, flightNumber, t) ==
  LET k == cacheKey(flightNumber)
      cached == c[k]
  IN IF cached # Null /\ (t - Val(cached).timestamp) <= cacheTTL
     THEN [ret |-> Some(Val(cached).data), cache |-> c]
     ELSE IF cached # Null
          THEN [ret |-> Null, cache |-> [c EXCEPT ![k] = Null]]
          ELSE [ret |-> Null, cache |-> c]

\* getCachedFlight(flightNumber): [ret, cache]; an expired entry is deleted
getCachedFlight(c, flightNumber, t) ==
  LET k == cacheKey(flightNumber)
      cached == c[k]
  IN IF cached # Null /\ (t - Val(cached).timestamp) < cacheTTL
     THEN [ret |-> Some(Val(cached).data), cache |-> c]
     ELSE IF cached # Null
          THEN [ret |-> Null, cache |-> [c EXCEPT ![k] = Null]]
          ELSE [ret |-> Null, cache |-> c]

\* cacheFlight(flightNumber, data)
cacheFlight(c, flightNumber, data, t) ==
  [c EXCEPT ![cacheKey(flightNumber)] = Some([data |-> data, timestamp |-> t])]

\* new Date(now.getFullYear(), now.getMonth() + 1, 1)
NextMonthStart(t) == ((t \div MonthLen) + 1) * MonthLen

\* canUseAviationStack, refusing only above the limit
canUseAviationStackAbove(key, u, t) ==
  IF key = PlaceholderKey THEN [ret |-> FALSE, usage |-> u]
  ELSE IF u.count > limit THEN [ret |-> FALSE, usage |-> u]
  ELSE IF u.resetDate # Null /\ t > Val(u.resetDate)
       THEN [ret |-> TRUE,
             usage |-> [count |-> 0, resetDate |-> Some(NextMonthStart(t))]]
       ELSE [ret |-> TRUE, usage |-> u]

\* canUseAviationStack(): [ret, usage]
canUseAviationStack(key, u, t) ==
  IF key = PlaceholderKey THEN [ret |-> FALSE, usage |-> u]
  ELSE IF u.count >= limit THEN [ret |-> FALSE, usage |-> u]
  ELSE IF u.resetDate # Null /\ t > Val(u.resetDate)
       THEN [ret |-> TRUE,
             usage |-> [count |-> 0, resetDate |-> Some(NextMonthStart(t))]]
       ELSE [ret |-> TRUE, usage |-> u]

\* incrementAviationStackUsage()
incrementAviationStackUsage(u) == [u EXCEPT !.count = u.count + 1]

\* ---- JavaScript truthiness of a record's live field
\* "true" / "false": booleans; "null": null or undefined; "object": live telemetry
Truthy(v) == v \in {"true", "object"}

\* Math.random() samples
Randoms == {0, 1}

\* ---- Provider A (OpenSky) telemetry rows: state[1], [5], [6], [8], [9]
Row(callsign, lon, lat, onGround, velocity) ==
  [callsign |-> callsign, lon |-> lon, lat |-> lat, onGround |-> onGround,
   velocity |-> velocity]
RowAI101 == Row(<<"A","I","1","0","1"," "," "," ">>, Some(72), Some(19), FALSE, Some(230))
RowAI123 == Row(<<"A","I","1","2","3">>, Null, Some(28), TRUE, Null)
RowQFA7 == Row(<<"Q","F","A","7">>, Some(151), Some(-33), FALSE, Null)
\* response.data.states of one /states/all answer
StatesLists == { <<>>, <<RowAI101>>, <<RowAI123, RowAI101>>, <<RowQFA7>> }

\* ---- RouteDatabase
Route(from, to, frequency) == [from |-> from, to |-> to, frequency |-> frequency]
\* routeData: the route lists of three carriers, in the order of the source
routeData ==
  <<"A","I">> :> << Route("DEL", "BOM", "high"), Route("DEL", "DXB", "high"),
                    Route("BOM", "DXB", "high"), Route("DEL", "LHR", "high"),
                    Route("BOM", "LHR", "high"), Route("DEL", "JFK", "medium"),
                    Route("BOM", "JFK", "medium"), Route("DEL", "SIN", "medium"),
                    Route("BOM", "SIN", "medium") >>
  @@ <<"L","H">> :> << Route("FRA", "DEL", "high"), Route("FRA", "BOM", "high"),
                       Route("FRA", "JFK", "very_high"), Route("FRA", "LAX", "high"),
                       Route("MUC", "DEL", "medium"), Route("MUC", "BOM", "medium"),
                       Route("FRA", "SIN", "high"), Route("FRA", "BKK", "high") >>
  @@ <<"Q","F">> :> << Route("SYD", "SIN", "very_high"), Route("SYD", "HKG", "high"),
                       Route("SYD", "DXB", "high"), Route("SYD", "LHR", "high"),
                       Route("MEL", "SIN", "high"), Route("MEL", "DXB", "high") >>

\* getRoutes(airlineCode) on the table rt; airlineCode Null or <<code>>
getRoutes(rt, airlineCode) ==
  IF airlineCode = Null \/ Val(airlineCode) = <<>> THEN <<>>
  ELSE IF toUpperCase(Val(airlineCode)) \in DOMAIN rt
       THEN rt[toUpperCase(Val(airlineCode))]
       ELSE <<>>

\* guessRoute(airlineCode, lat, lon): routes[0]
guessRoute(rt, airlineCode) ==
  LET rs == getRoutes(rt, airlineCode)
  IN IF rs = <<>> THEN Null ELSE Some(rs[1])

\* frequencyOrder[f] || 0
frequencyOrder(f) ==
  IF f = "very_high" THEN 3 ELSE IF f = "high" THEN 2 ELSE IF f = "medium" THEN 1 ELSE 0

\* routes.sort((a, b) => order[b.frequency] - order[a.frequency]): a stable
\* sort, the most frequent first
sortByFrequency(rs) ==
  LET tier(n) == SelectSeq(rs, LAMBDA r : frequencyOrder(r.frequency) = n)
  IN tier(3) \o tier(2) \o tier(1) \o tier(0)

\* getMostCommonRoute(airlineCode): [ret, routes]; the carrier's list is
\* sorted where it stands, in the table
getMostCommonRoute(rt, airlineCode) ==
  LET rs == getRoutes(rt, airlineCode)
      sorted == sortByFrequency(rs)
  IN IF rs = <<>> THEN [ret |-> Null, routes |-> rt]
     ELSE [ret |-> Some(sorted[1]),
           routes |-> [rt EXCEPT ![toUpperCase(Val(airlineCode))] = sorted]]

\* the keys of AirlineDatabase.airlines: every IATA and ICAO code
airlineCodes == { a[1] : a \in airlineData } \cup { a[2] : a \in airlineData }

\* AirlineDatabase.extractAirlineCode(callsign): Null or <<code>>
extractAirlineCode(callsign) ==
  LET cleaned == trim(toUpperCase(callsign))
      has(code) == code \in airlineCodes
  IN IF callsign = <<>> THEN Null
     ELSE IF Len(cleaned) >= 2 /\ has(substring(cleaned, 0, 2))
          THEN Some(substring(cleaned, 0, 2))
     ELSE IF Len(cleaned) >= 3 /\ has(substring(cleaned, 0, 3))
          THEN Some(substring(cleaned, 0, 3))
     ELSE IF Len(cleaned) >= 2 THEN Some(substring(cleaned, 0, 2))
     ELSE Null

\* ---- AircraftDatabase
\* the aircraft table, model code -> name, for the models the estimate uses
aircraftData ==
  "B777" :> "Boeing 777" @@ "B787" :> "Boeing 787 Dreamliner"
  @@ "A330" :> "Airbus A330" @@ "A350" :> "Airbus A350" @@ "A320" :> "Airbus A320"
wideBodyAirlines ==
  { <<"E","K">>, <<"Q","R">>, <<"E","Y">>, <<"S","Q">>, <<"L","H">>, <<"B","A">>,
    <<"A","F">>, <<"Q","F">>, <<"A","I">> }
wideBody == <<"B777", "B787", "A330", "A350">>
\* Math.floor(Math.random() * wideBody.length)
WideBodyDraws == 0..(Len(wideBody) - 1)

\* estimateAircraftFromCallsign(callsign); draw samples Math.random()
estimateAircraftFromCallsign(callsign, draw) ==
  LET airlineCode == toUpperCase(substring(callsign, 0, 2))
      model == IF airlineCode \in wideBodyAirlines THEN wideBody[draw + 1] ELSE "A320"
  IN [model |-> model, name |-> aircraftData[model]]

\* getAircraft(icao24, callsign); a callsign of <<>> is null or ''
getAircraft(icao24, callsign, draw) ==
  IF callsign # <<>> THEN estimateAircraftFromCallsign(callsign, draw)
  ELSE [model |-> "A320", name |-> aircraftData["A320"]]

\* the route table after formatOpenSkyStateData(state): step 3 asks
\* getMostCommonRoute for airlineCode, the carrier of the callsign
routesAfterFormat(rt, airlineCode) ==
  IF airlineCode # Null THEN getMostCommonRoute(rt, airlineCode).routes ELSE rt

\* formatOpenSkyStateData(state); rnd samples Math.random()
formatOpenSkyStateData(state, t, rnd) ==
  LET position == IF state.lon # Null /\ state.lat # Null
                  THEN Some([longitude |-> Val(state.lon), latitude |-> Val(state.lat),
                             velocity |-> state.velocity])
                  ELSE Null
      estimatedFlightTime == IF position # Null /\ state.velocity # Null
                             THEN 2 + rnd ELSE 3
  IN [flightNumber |-> trim(state.callsign),
      source |-> "opensky-enriched",
      live |-> "true",
      status |-> IF state.onGround THEN "landed" ELSE "in-flight",
      position |-> position,
      sched |-> [departure |-> Some(t - estimatedFlightTime * 60),
                 arrival |-> Some(t + estimatedFlightTime * 18),
                 terminal |-> rnd + 1, gate |-> rnd + 1]]

\* ---- Provider B (AviationStack) flights: response.data.data[0]
Flight(iata, sd, ad, sa, aa, live, terminal, gate) ==
  [iata |-> iata, depScheduled |-> sd, depActual |-> ad, arrScheduled |-> sa,
   arrActual |-> aa, live |-> live, terminal |-> terminal, gate |-> gate]
BFlights == { Flight(S_AI101, Some(2), Null, Some(4), Null, "null", 3, 7),
              Flight(S_QF104, Some(0), Some(1), Some(3), Some(3), "object", 1, 9) }

\* formatAviationStackData(flight)
formatAviationStackData(flight, t) ==
  LET scheduledDeparture == flight.depScheduled
      actualDeparture == flight.depActual
      scheduledArrival == flight.arrScheduled
      actualArrival == flight.arrActual
      \* Date comparisons; an Invalid Date compares false
      nowAfter(d) == d # Null /\ t > Val(d)
      nowBefore(d) == d # Null /\ t < Val(d)
      status ==
        IF actualArrival # Null /\ nowAfter(actualArrival) THEN "landed"
        ELSE IF actualDeparture # Null /\ nowAfter(actualDeparture)
             THEN IF actualArrival # Null /\ nowBefore(actualArrival) THEN "in-flight"
                  ELSE IF actualArrival = Null /\ nowBefore(scheduledArrival)
                       THEN "in-flight"
                       ELSE "landed"
        ELSE IF nowAfter(scheduledArrival) THEN "landed"
        ELSE IF nowAfter(scheduledDeparture) THEN "in-flight"
        ELSE "scheduled"
  IN [flightNumber |-> flight.iata,
      source |-> "aviationstack",
      live |-> flight.live,
      status |-> status,
      position |-> Null,
      sched |-> [departure |-> flight.depScheduled, arrival |-> flight.arrScheduled,
                 terminal |-> flight.terminal, gate |-> flight.gate]]

\* the flights of getMockFlightData's knownFlights table (lines 1166-1238)
knownFlights == { S_QFA104, S_QF104 }

\* mock data flagged live
getMockFlightDataLive(flightNumber, t, rnd) ==
  [flightNumber |-> flightNumber, source |-> "mock", live |-> "true",
   status |-> "scheduled", position |-> Null,
   sched |-> [departure |-> Some(t + rnd * 60),
              arrival |-> Some(t + rnd * 60 + (2 + rnd) * 60),
              terminal |-> rnd + 1, gate |-> rnd + 1]]

\* getMockFlightData(flightNumber); rnd samples Math.random()
getMockFlightData(flightNumber, t, rnd) ==
  IF flightNumber \in knownFlights
  THEN [flightNumber |-> flightNumber, source |-> "mock-accurate", live |-> "false",
        status |-> "scheduled", position |-> Null,
        sched |-> [departure |-> Some(t + 120), arrival |-> Some(t + 120 + 630),
                   terminal |-> 2, gate |-> 15]]
  ELSE [flightNumber |-> flightNumber, source |-> "mock", live |-> "false",
        status |-> "scheduled", position |-> Null,
        sched |-> [departure |-> Some(t + rnd * 60),
                   arrival |-> Some(t + rnd * 60 + (2 + rnd) * 60),
                   terminal |-> rnd + 1, gate |-> rnd + 1]]

\* ---- what the providers and the token endpoint can answer
\* axios.post(openSkyAuthUrl): a token with a declared lifetime (minutes, Null:
\* no expires_in), an answer without access_token, or a failure
TokenOutcomes ==
  { [kind |-> "ok", access_token |-> "token", expires_in |-> Null],
    [kind |-> "ok", access_token |-> "token", expires_in |-> Some(5)],
    [kind |-> "ok", access_token |-> "token", expires_in |-> Some(6)],
    [kind |-> "ok", access_token |-> "token", expires_in |-> Some(10)],
    [kind |-> "notoken", access_token |-> "", expires_in |-> Null],
    [kind |-> "error", access_token |-> "", expires_in |-> Null] }
\* openSkyAxios.get('/states/all'): rows, an answer without states, or a failure
OpenSkyOutcomes ==
  { [kind |-> "states", states |-> L] : L \in StatesLists }
  \cup { [kind |-> k, states |-> <<>>] : k \in {"nostates", "timeout", "network"} }
\* axios.get(baseUrl/flights): a flight, an empty list, an answer without
\* data.data, an answer without data, an HTTP error status, or a failure
AviationOutcomes ==
  { [kind |-> "data", flight |-> Some(f)] : f \in BFlights }
  \cup { [kind |-> k, flight |-> Null] :
           k \in {"empty", "nodata", "malformed", "http429", "http402", "http500",
                  "timeout", "network"} }

\* tokenValid, the token still taken at the minute it expires
tokenValidInclusive(tk, t) ==
  tk.accessToken # Null /\ tk.expiry # Null /\ t <= Val(tk.expiry)

\* tokenValid, the expiry not looked at
tokenValidForever(tk, t) ==
  tk.accessToken # Null /\ tk.expiry # Null

\* ---- getOpenSkyAccessToken(), the part before the exchange (lines 301-309)
tokenValid(tk, t) ==
  tk.accessToken # Null /\ tk.expiry # Null /\ t < Val(tk.expiry)

\* makeOpenSkyRequest called by call p for request i: await the token exchange
\* when one is needed, else issue the GET with or without Authorization
BeginOpenSkyRequest(p, i) ==
  /\ aIdx' = [aIdx EXCEPT ![p] = i]
  /\ IF tokenValid(token, now)
     THEN /\ pc' = [pc EXCEPT ![p] = "A_get"]
          /\ auth' = [auth EXCEPT ![p] = token.accessToken]
          /\ reqs' = [reqs EXCEPT ![p].A = TRUE]
     ELSE IF ~creds
          THEN /\ pc' = [pc EXCEPT ![p] = "A_get"]
               /\ auth' = [auth EXCEPT ![p] = Null]
               /\ reqs' = [reqs EXCEPT ![p].A = TRUE]
          ELSE /\ pc' = [pc EXCEPT ![p] = "A_tok"]
               /\ auth' = [auth EXCEPT ![p] = Null]
               /\ reqs' = [reqs EXCEPT ![p].tok = TRUE]

\* getFlightInfo returns rec to the caller of call p; its locals are gone
Returns(p, rec) ==
  /\ result' = [result EXCEPT ![p] = Some(rec)]
  /\ pc' = [pc EXCEPT ![p] = "done"]
  /\ aIdx' = [aIdx EXCEPT ![p] = 0]
  /\ auth' = [auth EXCEPT ![p] = Null]
  /\ osr' = [osr EXCEPT ![p] = Null]
  /\ bForm' = [bForm EXCEPT ![p] = 0]
  /\ bIdx' = [bIdx EXCEPT ![p] = 0]
  /\ last' = [last EXCEPT ![arg[p]] =
                Some([data |-> rec, at |-> now, stored |-> Some(now)])]

\* the record cached under the normalized identifier only
ReturnNormalizedOnly(p, n, rec) ==
  /\ cache' = cacheFlight(cache, n.normalized, rec, now)
  /\ Returns(p, rec)

\* getFlightInfo caches the record under both identifiers and returns it
ReturnBoth(p, n, rec) ==
  /\ cache' = cacheFlight(cacheFlight(cache, n.original, rec, now),
                          n.normalized, rec, now)
  /\ Returns(p, rec)

\* getFlightInfo's catch block: mock data for the raw argument, cached under
\* flightNumber.toUpperCase() only
ReturnFromCatch(p, rnd) ==
  LET mockData == getMockFlightData(arg[p], now, rnd)
  IN /\ cache' = cacheFlight(cache, toUpperCase(arg[p]), mockData, now)
     /\ Returns(p, mockData)

\* steps 3 and 4 without the mock fallback: the error reaches the caller
NoAviationResultRaises(p, n, openSkyResult, rnd) ==
  IF openSkyResult # Null
  THEN ReturnBoth(p, n, Val(openSkyResult))
  ELSE /\ pc' = [pc EXCEPT ![p] = "raised"]
       /\ UNCHANGED <<cache, result, aIdx, auth, osr, bForm, bIdx, last>>

\* getFlightInfo steps 3 and 4: no AviationStack result
NoAviationResult(p, n, openSkyResult, rnd) ==
  IF openSkyResult # Null
  THEN ReturnBoth(p, n, Val(openSkyResult))
  ELSE ReturnBoth(p, n, getMockFlightData(n.normalized, now, rnd))

\* getFlightFromAviationStack's loop from variation v of the call for `form`
\* (1: normalized, 2: original): the next request to issue, if any, and the
\* usage after the canUseAviationStack() calls made on the way
RECURSIVE AttemptFrom(_, _, _, _, _, _)
AttemptFrom(key, u, t, isIcao, form, v) ==
  LET r == canUseAviationStack(key, u, t)
      miss == IF v > 8 THEN u ELSE r.usage
  IN IF v <= 8 /\ r.ret
     THEN [issue |-> TRUE, usage |-> r.usage, form |-> form, idx |-> v]
     ELSE IF form = 1 /\ isIcao
          THEN AttemptFrom(key, miss, t, isIcao, 2, 1)
          ELSE [issue |-> FALSE, usage |-> miss, form |-> form, idx |-> v]

\* the continuation of getFlightInfo once usage u is reached and the adapter
\* stands before variation v: issue the request or fall through to steps 3, 4
ContinueAviation(p, n, u, form, v, openSkyResult, rnd) ==
  \E a \in {AttemptFrom(apiKey, u, now, n.isIcao, form, v)} :
     /\ usage' = a.usage
     /\ IF a.issue
        THEN /\ pc' = [pc EXCEPT ![p] = "B_get"]
             /\ bForm' = [bForm EXCEPT ![p] = a.form]
             /\ bIdx' = [bIdx EXCEPT ![p] = a.idx]
             /\ osr' = [osr EXCEPT ![p] = openSkyResult]
             /\ aIdx' = [aIdx EXCEPT ![p] = 0]
             /\ auth' = [auth EXCEPT ![p] = Null]
             /\ reqs' = [reqs EXCEPT ![p].B = TRUE]
             /\ UNCHANGED <<cache, result, last>>
        ELSE /\ NoAviationResult(p, n, openSkyResult, rnd)
             /\ UNCHANGED reqs

\* getFlightInfo step 2, after getFlightFromOpenSky returned openSkyResult
EnterAviation(p, n, openSkyResult, rnd) ==
  \E r \in {canUseAviationStack(apiKey, usage, now)} :
     IF r.ret
     THEN ContinueAviation(p, n, r.usage, 1, 1, openSkyResult, rnd)
     ELSE /\ usage' = r.usage
          /\ NoAviationResult(p, n, openSkyResult, rnd)
          /\ UNCHANGED reqs

\* ---- getFlightFromOpenSky's four searches
\* flightNumber.replace(/[^A-Z0-9]/g, '')
clean(s) == SelectSeq(s, LAMBDA c : c \in Letters \cup Digits)

\* states.find(...) of request i for flightNumber: the first row that matches
findFlight(states, flightNumber, i) ==
  LET searchTerm == IF i = 1 THEN flightNumber
                    ELSE IF i = 2 THEN substring(flightNumber, 0, 3)
                    ELSE clean(flightNumber)
      airlineCode == toUpperCase(substring(flightNumber, 0, 2))
      matches(state) ==
        LET callsign == trim(state.callsign)
        IN /\ callsign # <<>>
           /\ IF i <= 3
              THEN includes(toUpperCase(callsign), toUpperCase(searchTerm))
              ELSE startsWith(callsign, airlineCode)
  IN IF \E k \in 1..Len(states) : matches(states[k])
     THEN Some(states[CHOOSE k \in 1..Len(states) :
                        /\ matches(states[k])
                        /\ \A j \in 1..(k - 1) : ~matches(states[j])])
     ELSE Null

\* a match counted as live only when it carries a position
liveMatchWithPosition(openSkyResult) ==
  /\ openSkyResult # Null
  /\ Truthy(Val(openSkyResult).live)
  /\ Val(openSkyResult).position # Null

\* `openSkyResult && openSkyResult.live` (lines 405 and 423)
liveMatch(openSkyResult) ==
  openSkyResult # Null /\ Truthy(Val(openSkyResult).live)

\* the search loop repeating the search it just made
nextSearchSame(i) == i

\* `for (const searchTerm of searchTerms)`, then the airline-code search
nextSearch(i) == i + 1

\* the variation loop trying the variation it just tried
nextVariationSame(v) == v

\* `for (const searchParams of searchVariations)`
nextVariation(v) == v + 1

\* ---- the calls
\* what a call has sent so far: a request to OpenSky, to AviationStack, to the
\* token endpoint
NoReqs == [A |-> FALSE, B |-> FALSE, tok |-> FALSE]

\* the history of the exhaustion once a step has left the usage u
exhaustedAfter(u) ==
  IF u.count < limit THEN Null
  ELSE IF exhaustedAt # Null THEN exhaustedAt
  ELSE Some(now)

\* getFlightInfo(id) up to its first await: normalize, look in the cache under
\* both identifiers, else start getFlightFromOpenSky
Start(p, id) ==
  /\ pc[p] = "idle"
  /\ calls' = calls + 1
  /\ arg' = [arg EXCEPT ![p] = id]
  /\ LET n == Norm[id]
         g1 == getCachedFlight(cache, n.original, now)
         g2 == IF g1.ret # Null THEN g1
               ELSE getCachedFlight(g1.cache, n.normalized, now)
     IN /\ cache' = g2.cache
        /\ IF g2.ret # Null
           THEN /\ result' = [result EXCEPT ![p] = g2.ret]
                /\ hit' = [hit EXCEPT ![p] = TRUE]
                /\ pc' = [pc EXCEPT ![p] = "done"]
                /\ last' = [last EXCEPT ![id] =
                              Some([data |-> Val(g2.ret), at |-> now,
                                    stored |-> IF last[id] # Null
                                               THEN Val(last[id]).stored
                                               ELSE Null])]
                /\ UNCHANGED <<aIdx, auth, reqs>>
           ELSE /\ BeginOpenSkyRequest(p, 1)
                /\ UNCHANGED <<result, hit, last>>
  /\ answered' = [answered EXCEPT ![p] = "none"]
  /\ UNCHANGED <<now, usage, apiKey, creds, token, osr, bForm, bIdx, yielded,
                 stats, exhaustedAt, probe, routes>>

\* TokenResponse, the stored token attached when the exchange gave none
TokenResponseStale(p, o) ==
  /\ pc[p] = "A_tok"
  /\ IF o.kind = "ok"
     THEN LET expiresIn == (IF o.expires_in # Null THEN Val(o.expires_in)
                            ELSE DefaultExpiresIn) - RefreshBuffer
          IN /\ token' = [accessToken |-> Some(o.access_token),
                           expiry |-> Some(now + expiresIn)]
             /\ auth' = [auth EXCEPT ![p] = Some(o.access_token)]
     ELSE /\ token' = token
          /\ auth' = [auth EXCEPT ![p] = token.accessToken]
  /\ pc' = [pc EXCEPT ![p] = "A_get"]
  /\ reqs' = [reqs EXCEPT ![p].A = TRUE]
  /\ answered' = [answered EXCEPT ![p] = IF o.kind = "ok" THEN "tok:ok" ELSE "tok:failed"]
  /\ UNCHANGED <<now, cache, usage, apiKey, creds, arg, aIdx, osr, bForm, bIdx,
                 result, hit, yielded, calls, stats, last, exhaustedAt, probe, routes>>

\* TokenResponse, a failed exchange discarding the stored token
TokenResponseForgets(p, o) ==
  /\ pc[p] = "A_tok"
  /\ IF o.kind = "ok"
     THEN LET expiresIn == (IF o.expires_in # Null THEN Val(o.expires_in)
                            ELSE DefaultExpiresIn) - RefreshBuffer
          IN /\ token' = [accessToken |-> Some(o.access_token),
                           expiry |-> Some(now + expiresIn)]
             /\ auth' = [auth EXCEPT ![p] = Some(o.access_token)]
     ELSE /\ token' = [accessToken |-> Null, expiry |-> Null]
          /\ auth' = [auth EXCEPT ![p] = Null]
  /\ pc' = [pc EXCEPT ![p] = "A_get"]
  /\ reqs' = [reqs EXCEPT ![p].A = TRUE]
  /\ answered' = [answered EXCEPT ![p] = IF o.kind = "ok" THEN "tok:ok" ELSE "tok:failed"]
  /\ UNCHANGED <<now, cache, usage, apiKey, creds, arg, aIdx, osr, bForm, bIdx,
                 result, hit, yielded, calls, stats, last, exhaustedAt, probe, routes>>

\* the token endpoint answers call p: getOpenSkyAccessToken lines 328-341, then
\* makeOpenSkyRequest issues the GET
TokenResponse(p, o) ==
  /\ pc[p] = "A_tok"
  /\ IF o.kind = "ok"
     THEN LET expiresIn == (IF o.expires_in # Null THEN Val(o.expires_in)
                            ELSE DefaultExpiresIn) - RefreshBuffer
          IN /\ token' = [accessToken |-> Some(o.access_token),
                           expiry |-> Some(now + expiresIn)]
             /\ auth' = [auth EXCEPT ![p] = Some(o.access_token)]
     ELSE /\ token' = token
          /\ auth' = [auth EXCEPT ![p] = Null]
  /\ pc' = [pc EXCEPT ![p] = "A_get"]
  /\ reqs' = [reqs EXCEPT ![p].A = TRUE]
  /\ answered' = [answered EXCEPT ![p] = IF o.kind = "ok" THEN "tok:ok" ELSE "tok:failed"]
  /\ UNCHANGED <<now, cache, usage, apiKey, creds, arg, aIdx, osr, bForm, bIdx,
                 result, hit, yielded, calls, stats, last, exhaustedAt, probe, routes>>

\* OpenSky answers request aIdx[p] of call p: getFlightFromOpenSky lines 546-588
\* and getFlightInfo lines 405-457 up to the next await
OpenSkyResponse(p, o, rnd) ==
  /\ pc[p] = "A_get"
  /\ \E flight \in {IF o.kind = "states"
                    THEN findFlight(o.states, Norm[arg[p]].normalized, aIdx[p])
                    ELSE Null} :
     \E openSkyResult \in {IF flight # Null
                           THEN Some(formatOpenSkyStateData(Val(flight), now, rnd))
                           ELSE Null} :
     \E callsign \in {IF flight # Null THEN trim(Val(flight).callsign) ELSE <<>>} :
     \E airlineCode \in {extractAirlineCode(callsign)} :
     \E sorted \in {IF flight # Null THEN routesAfterFormat(routes, airlineCode)
                     ELSE routes} :
       /\ yielded' = [yielded EXCEPT ![p] = IF flight # Null THEN {"A"} ELSE {}]
       /\ routes' = sorted
       /\ IF openSkyResult = Null /\ aIdx[p] < 4
          THEN /\ BeginOpenSkyRequest(p, nextSearch(aIdx[p]))
               /\ UNCHANGED <<cache, usage, osr, bForm, bIdx, result, last>>
          ELSE IF liveMatch(openSkyResult)
               THEN /\ ReturnBoth(p, Norm[arg[p]], Val(openSkyResult))
                    /\ UNCHANGED <<usage, reqs>>
               ELSE EnterAviation(p, Norm[arg[p]], openSkyResult, rnd)
  /\ answered' = [answered EXCEPT ![p] = "none"]
  /\ exhaustedAt' = exhaustedAfter(usage')
  /\ UNCHANGED <<now, apiKey, creds, token, arg, hit, calls, stats, probe>>

\* usageAfter, a refusal with 429 or 402 handled as any other error
usageAfterNotExhausted(u, kind) ==
  IF kind \in {"data", "empty", "nodata", "malformed"}
  THEN incrementAviationStackUsage(u)
  ELSE u

\* usageAfter, charging every request that was not refused with 429 or 402
usageAfterIssued(u, kind) ==
  IF kind \in {"http429", "http402"}
  THEN [u EXCEPT !.count = limit]
  ELSE incrementAviationStackUsage(u)

\* the usage after AviationStack's answer: lines 501-502 and 512-515
usageAfter(u, kind) ==
  IF kind \in {"data", "empty", "nodata", "malformed"}
  THEN incrementAviationStackUsage(u)
  ELSE IF kind \in {"http429", "http402"}
       THEN [u EXCEPT !.count = limit]
       ELSE u

\* how axios.get settled (lines 492-499): resolved with an HTTP success, rejected
\* with status 429 or 402, or rejected otherwise
answerOf(kind) ==
  IF kind \in {"data", "empty", "nodata", "malformed"} THEN "B:ok"
  ELSE IF kind \in {"http429", "http402"} THEN "B:limit"
  ELSE "B:failed"

\* AviationStack answers variation bIdx[p] of call p: getFlightFromAviationStack
\* lines 501-519 and getFlightInfo lines 417-457 up to the next await
AviationResponse(p, o, rnd) ==
  /\ pc[p] = "B_get"
  /\ \E u \in {usageAfter(usage, o.kind)} :
       IF o.kind = "data"
       THEN \E aviationResult \in {formatAviationStackData(Val(o.flight), now)} :
              /\ usage' = u
              /\ IF liveMatch(osr[p])
                 THEN \* cacheFlight(normalizedFlightNumber, ...) names no
                      \* variable: a ReferenceError, caught at line 458
                      ReturnFromCatch(p, rnd)
                 ELSE ReturnBoth(p, Norm[arg[p]], aviationResult)
              /\ UNCHANGED reqs
       ELSE ContinueAviation(p, Norm[arg[p]], u, bForm[p], nextVariation(bIdx[p]),
                             osr[p], rnd)
  /\ yielded' = [yielded EXCEPT ![p] = IF o.kind = "data" THEN @ \cup {"B"} ELSE @]
  /\ answered' = [answered EXCEPT ![p] = answerOf(o.kind)]
  /\ exhaustedAt' = exhaustedAfter(usage')
  /\ UNCHANGED <<now, apiKey, creds, token, arg, hit, calls, stats, probe, routes>>

\* the caller takes the record and the call is over
Finish(p) ==
  /\ pc[p] = "done"
  /\ pc' = [pc EXCEPT ![p] = "idle"]
  /\ arg' = [arg EXCEPT ![p] = <<>>]
  /\ result' = [result EXCEPT ![p] = Null]
  /\ hit' = [hit EXCEPT ![p] = FALSE]
  /\ reqs' = [reqs EXCEPT ![p] = NoReqs]
  /\ yielded' = [yielded EXCEPT ![p] = {}]
  /\ answered' = [answered EXCEPT ![p] = "none"]
  /\ UNCHANGED <<now, cache, usage, apiKey, creds, token, aIdx, auth, osr,
                 bForm, bIdx, calls, stats, last, exhaustedAt, probe, routes>>

\* clearCache()
ClearCache ==
  /\ cache' = [k \in Keys |-> Null]
  /\ last' = [x \in Ids |-> Null]
  /\ UNCHANGED <<now, usage, apiKey, creds, token,
                 pc, arg, aIdx, auth, osr, bForm, bIdx, result, hit, reqs, yielded,
                 calls, stats, exhaustedAt, probe, routes>>
  /\ UNCHANGED answered

\* getUsageStats(): the fields are read in the order the literal lists them,
\* `available` last, by a call of canUseAviationStack()
GetUsageStats ==
  LET r == canUseAviationStack(apiKey, usage, now)
  IN /\ stats' = Some([used |-> usage.count,
                       remaining |-> IF limit - usage.count > 0
                                     THEN limit - usage.count ELSE 0,
                       resetDate |-> usage.resetDate,
                       available |-> r.ret])
     /\ usage' = r.usage
     /\ calls' = calls + 1
     /\ UNCHANGED <<now, cache, apiKey, creds, token,
                    pc, arg, aIdx, auth, osr, bForm, bIdx, result, hit, reqs, yielded,
                    last, probe, routes>>
     /\ UNCHANGED answered
     /\ exhaustedAt' = exhaustedAfter(usage')

\* a minute passes
Tick ==
  /\ now < MaxTime
  /\ now' = now + 1
  /\ UNCHANGED <<cache, usage, apiKey, creds, token,
                 pc, arg, aIdx, auth, osr, bForm, bIdx, result, hit, reqs, yielded,
                 calls, stats, last, exhaustedAt, probe, routes>>
  /\ UNCHANGED answered

\* the service as constructed (lines 183-222) at time t0; the environment gives
\* the requests already used, the reset date, the API key and whether the
\* OpenSky credentials are set
Constructed(t0, counts, resetDates, envKeys, credsSet) ==
  /\ now = t0
  /\ cache = [k \in Keys |-> Null]
  /\ usage \in [count : counts, resetDate : resetDates]
  /\ apiKey \in {apiKeyOf(e) : e \in envKeys}
  /\ creds \in credsSet
  /\ token = [accessToken |-> Null, expiry |-> Null]
  /\ pc = [p \in Procs |-> "idle"]
  /\ arg = [p \in Procs |-> <<>>]
  /\ aIdx = [p \in Procs |-> 0]
  /\ auth = [p \in Procs |-> Null]
  /\ osr = [p \in Procs |-> Null]
  /\ bForm = [p \in Procs |-> 0]
  /\ bIdx = [p \in Procs |-> 0]
  /\ result = [p \in Procs |-> Null]
  /\ hit = [p \in Procs |-> FALSE]
  /\ reqs = [p \in Procs |-> NoReqs]
  /\ yielded = [p \in Procs |-> {}]
  /\ calls = 0
  /\ stats = Null
  /\ last = [x \in Ids |-> Null]
  /\ answered = [p \in Procs |-> "none"]
  /\ exhaustedAt = IF usage.count >= limit THEN Some(t0) ELSE Null
  /\ probe = Null
  /\ routes = routeData

\* ---- Spec: concurrent getFlightInfo calls, the clock standing still
\* the token endpoint's answers in Spec: the default lifetime, or a failure
SpecTokenOutcomes == { o \in TokenOutcomes : o.expires_in = Null /\ o.kind # "notoken" }

\* one call by each caller
NumCalls == Cardinality(Procs)

Init ==
  Constructed(0, (limit - MaxHeadroom)..limit, {Null}, {Null}, BOOLEAN)

Next ==
  \/ \E p \in Procs, id \in Ids : calls < NumCalls /\ Start(p, id)
  \/ \E p \in Procs, o \in SpecTokenOutcomes : TokenResponse(p, o)
  \/ \E p \in Procs, o \in OpenSkyOutcomes, rnd \in Randoms : OpenSkyResponse(p, o, rnd)
  \/ \E p \in Procs, o \in AviationOutcomes, rnd \in Randoms : AviationResponse(p, o, rnd)
  \/ \E p \in Procs : Finish(p)

Spec == Init /\ [][Next]_vars

\* ---- SpecFair: concurrent calls for one flight, every request answered or
\* timed out in the end
\* the request call p is waiting for is answered (only one is ever pending)
Answer(p) ==
  \/ \E o \in SpecTokenOutcomes : TokenResponse(p, o)
  \/ \E o \in OpenSkyOutcomes, rnd \in Randoms : OpenSkyResponse(p, o, rnd)
  \/ \E o \in AviationOutcomes, rnd \in Randoms : AviationResponse(p, o, rnd)

Fairness == \A p \in Procs : WF_vars(Answer(p))

\* the OpenSky credentials are set and the quota has MaxHeadroom requests left
InitFair ==
  Constructed(0, {limit - MaxHeadroom}, {Null}, {Null}, {TRUE})

\* the identifier of SpecFair, in ICAO form: the calls go through every step
FairIds == { S_AIC101 }

NextFair ==
  \/ \E p \in Procs, id \in FairIds : calls < NumCalls /\ Start(p, id)
  \/ \E p \in Procs : Answer(p)
  \/ \E p \in Procs : Finish(p)

SpecFair == InitFair /\ [][NextFair]_vars /\ Fairness

\* ---- SpecTimed: one caller, one call after the other, the clock running
\* the only caller of SpecTimed and SpecQuota
Caller == CHOOSE p \in Procs : \A q \in Procs : p <= q

\* the identifiers, OpenSky answers and AviationStack answers of SpecTimed and
\* SpecQuota: two spellings of one flight; its row or a timeout; its schedule,
\* an empty list or HTTP 429
TimedIds == { S_AIC101, <<" ","a","i","1","0","1">> }
TimedOpenSky ==
  { o \in OpenSkyOutcomes : o.kind = "timeout" \/ o.states = <<RowAI101>> }
TimedAviation ==
  { o \in AviationOutcomes :
      \/ o.kind \in {"empty", "http429"}
      \/ o.kind = "data" /\ Val(o.flight).iata = S_AI101 }

InitTimed ==
  Constructed(0, (limit - MaxHeadroom)..limit, {Null}, {Null}, {FALSE})

NextTimed ==
  \/ \E id \in TimedIds : calls < MaxCalls /\ Start(Caller, id)
  \/ \E o \in TimedOpenSky, rnd \in Randoms : OpenSkyResponse(Caller, o, rnd)
  \/ \E o \in TimedAviation, rnd \in Randoms : AviationResponse(Caller, o, rnd)
  \/ Finish(Caller)
  \/ ClearCache
  \/ Tick

SpecTimed == InitTimed /\ [][NextTimed]_vars

\* ---- SpecQuota: SpecTimed with or without a reset date, and getUsageStats()
\* calls
InitQuota ==
  Constructed(0, (limit - MaxHeadroom)..limit, {Null, Some(0)},
              {Null, Some(PlaceholderKey)}, {FALSE})

NextQuota ==
  \/ \E id \in TimedIds : calls < MaxCalls /\ Start(Caller, id)
  \/ \E o \in TimedOpenSky, rnd \in Randoms : OpenSkyResponse(Caller, o, rnd)
  \/ \E o \in TimedAviation, rnd \in Randoms : AviationResponse(Caller, o, rnd)
  \/ Finish(Caller)
  \/ calls < MaxCalls /\ GetUsageStats
  \/ Tick

SpecQuota == InitQuota /\ [][NextQuota]_vars

\* ---- SpecToken: SpecTimed with or without the OpenSky credentials and with
\* every answer of the token endpoint, one AviationStack request left
InitToken ==
  Constructed(0, {limit - 1}, {Null}, {Null}, BOOLEAN)

NextToken ==
  \/ \E id \in TimedIds : calls < MaxCalls /\ Start(Caller, id)
  \/ \E o \in TokenOutcomes : TokenResponse(Caller, o)
  \/ \E o \in TimedOpenSky, rnd \in Randoms : OpenSkyResponse(Caller, o, rnd)
  \/ \E o \in TimedAviation, rnd \in Randoms : AviationResponse(Caller, o, rnd)
  \/ Finish(Caller)
  \/ Tick

SpecToken == InitToken /\ [][NextToken]_vars

\* ---- SpecOutage: SpecToken with OpenSky failing every request
\* the answers of an OpenSky that times out, cannot be reached, or answers
\* without `states`
TransientOpenSky ==
  { o \in OpenSkyOutcomes : o.kind \in {"timeout", "network", "nostates"} }

NextOutage ==
  \/ \E id \in TimedIds : calls < MaxCalls /\ Start(Caller, id)
  \/ \E o \in TokenOutcomes : TokenResponse(Caller, o)
  \/ \E o \in TransientOpenSky, rnd \in Randoms : OpenSkyResponse(Caller, o, rnd)
  \/ \E o \in TimedAviation, rnd \in Randoms : AviationResponse(Caller, o, rnd)
  \/ Finish(Caller)
  \/ Tick

SpecOutage == InitToken /\ [][NextOutage]_vars

\* ---- SpecNormalize: normalizeFlightNumber applied to identifiers of the
\* caller's and to its own results
\* what an identifier begins with: the IATA and ICAO code of every airline,
\* some in lower case or after a space, and letters that are no airline's code
Beginnings ==
  UNION { {a[1], a[2]} : a \in airlineData }
  \cup { <<"a","i","c">>, <<" ","A","I","C">>, <<"q","f","a">>, <<"A","I","X">>,
         <<"Z","Z","Z">>, <<"X","Q">>, <<"A","I","C","A">>, <<>> }
\* and what it ends with
Endings ==
  { <<"1">>, <<"1","0","1">>, <<"7"," ">>, <<"1","A">>, <<"-","1">>, <<"X">>, <<>> }
Identifiers == { b \o e : b \in Beginnings, e \in Endings }

\* normalizeFlightNumber(x), x taken from the result `of` if that is not Null
Apply(x, of) ==
  /\ probe' = Some([f |-> "normalizeFlightNumber", x |-> x,
                     y |-> normalizeFlightNumber(x), of |-> of])
  /\ UNCHANGED <<now, cache, usage, apiKey, creds, token,
                 pc, arg, aIdx, auth, osr, bForm, bIdx, result, hit, reqs, yielded,
                 calls, stats, last, answered, exhaustedAt, routes>>

\* normalizeFlightNumber(x) for an identifier of the caller's
Normalize(x) == Apply(x, Null)

\* normalizeFlightNumber(r.normalized), r the result of the latest application
NormalizeAgain ==
  /\ probe # Null
  /\ Apply(Val(probe).y.normalized, Some(Val(probe).y))

InitNormalize ==
  Constructed(0, {limit - MaxHeadroom}, {Null}, {Null}, {FALSE})

NextNormalize ==
  \/ \E x \in Identifiers : Normalize(x)
  \/ NormalizeAgain

SpecNormalize == InitNormalize /\ [][NextNormalize]_vars

\* ---- SpecStatus: formatAviationStackData applied to flights with every
\* combination of instants, the clock running
\* the instants of a flight's schedule are 0..MaxInstant
Instants == 0..MaxInstant
StatusFlights ==
  { Flight(S_AI101, Some(sd), ad, Some(sa), aa, "null", 3, 7) :
      sd \in Instants, sa \in Instants,
      ad \in {Null} \cup {Some(i) : i \in Instants},
      aa \in {Null} \cup {Some(i) : i \in Instants} }

\* formatAviationStackData(flight) at the present time
FormatAviationStack(flight) ==
  /\ probe' = Some([f |-> "formatAviationStackData", x |-> [flight |-> flight, now |-> now],
                     y |-> formatAviationStackData(flight, now), of |-> Null])
  /\ UNCHANGED <<now, cache, usage, apiKey, creds, token,
                 pc, arg, aIdx, auth, osr, bForm, bIdx, result, hit, reqs, yielded,
                 calls, stats, last, answered, exhaustedAt, routes>>

InitStatus ==
  Constructed(0, {limit - MaxHeadroom}, {Null}, {Null}, {FALSE})

NextStatus ==
  \/ \E flight \in StatusFlights : FormatAviationStack(flight)
  \/ Tick

SpecStatus == InitStatus /\ [][NextStatus]_vars

\* ---- SpecRegistry: the registries queried, and telemetry rows enriched, in
\* any order
\* the carrier codes asked for: the carriers of the route table, one in lower
\* case, a carrier without routes, and no code
QueryCodes ==
  { Some(c) : c \in DOMAIN routeData \cup { <<"l","h">>, <<"6","E">>, <<>> } }
  \cup { Null }
\* the callsigns whose aircraft is asked for; <<>> is no callsign
QueryCallsigns ==
  { S_AI101, <<"L","H","7","6","0">>, <<"Q","F","A","7">>, <<"6","E","2","2">>, <<>> }
\* the telemetry rows enriched
RowLH760 == Row(<<"L","H","7","6","0">>, Some(8), Some(50), FALSE, Some(240))
QueryRows == { RowAI101, RowLH760 }

\* a registry query f(x) that answers y and leaves the route table as rt
Query(f, x, y, of, rt) ==
  /\ probe' = Some([f |-> f, x |-> x, y |-> y, of |-> of])
  /\ routes' = rt
  /\ UNCHANGED <<now, cache, usage, apiKey, creds, token,
                 pc, arg, aIdx, auth, osr, bForm, bIdx, result, hit, reqs, yielded,
                 calls, stats, last, answered, exhaustedAt>>

GetRoutes(code) == Query("getRoutes", code, getRoutes(routes, code), Null, routes)

GuessRoute(code) == Query("guessRoute", code, guessRoute(routes, code), Null, routes)

GetMostCommonRoute(code) ==
  Query("getMostCommonRoute", code, getMostCommonRoute(routes, code).ret, Null,
        getMostCommonRoute(routes, code).routes)

GetAirline(code) ==
  Query("getAirline", code, IF code = Null THEN Null ELSE getAirline(Val(code)), Null,
        routes)

GetAircraft(callsign, draw) ==
  Query("getAircraft", callsign, getAircraft("icao24", callsign, draw), Null, routes)

\* getAircraft once more for the callsign and icao24 of the latest query
GetAircraftAgain(draw) ==
  /\ probe # Null
  /\ Val(probe).f = "getAircraft"
  /\ Query("getAircraft", Val(probe).x, getAircraft("icao24", Val(probe).x, draw),
           Some(Val(probe).y), routes)

\* formatOpenSkyStateData(state) for a row of a /states/all answer
FormatOpenSkyState(state, rnd) ==
  Query("formatOpenSkyStateData", state, formatOpenSkyStateData(state, now, rnd), Null,
        routesAfterFormat(routes, extractAirlineCode(trim(state.callsign))))

InitRegistry ==
  Constructed(0, {limit - MaxHeadroom}, {Null}, {Null}, {FALSE})

NextRegistry ==
  \/ \E code \in QueryCodes : GetRoutes(code)
  \/ \E code \in QueryCodes : GuessRoute(code)
  \/ \E code \in QueryCodes : GetMostCommonRoute(code)
  \/ \E code \in QueryCodes : GetAirline(code)
  \/ \E callsign \in QueryCallsigns, draw \in WideBodyDraws : GetAircraft(callsign, draw)
  \/ \E draw \in WideBodyDraws : GetAircraftAgain(draw)
  \/ \E state \in QueryRows, rnd \in Randoms : FormatOpenSkyState(state, rnd)

SpecRegistry == InitRegistry /\ [][NextRegistry]_vars

\* ---- SpecAirport: SpecQuota's calls, and getAirportInfo calls
\* getMockAirportData's table, code -> city
mockAirports == "BOM" :> "Mumbai" @@ "DEL" :> "Delhi"
getMockAirportData(iataCode) ==
  IF iataCode \in DOMAIN mockAirports THEN mockAirports[iataCode] ELSE "Unknown"

\* the codes asked for, and axios.get(baseUrl/airports): an airport, an empty
\* list, or a failure
AirportCodes == { "BOM", "XXX" }
AirportOutcomes == { "data", "empty", "timeout" }

\* getAirportInfo(iataCode), the request included; y.requested tells whether
\* the request to AviationStack was sent, y.call which call of the caller's
\* this is
GetAirportInfo(iataCode, o) ==
  LET requested == apiKey # "" /\ apiKey # PlaceholderKey
      city == IF requested /\ o = "data" THEN "provider:" \o iataCode
              ELSE getMockAirportData(iataCode)
  IN /\ probe' = Some([f |-> "getAirportInfo", x |-> iataCode,
                        y |-> [requested |-> requested, city |-> city,
                               call |-> calls + 1],
                        of |-> Null])
     /\ calls' = calls + 1
     /\ UNCHANGED <<now, cache, usage, apiKey, creds, token,
                    pc, arg, aIdx, auth, osr, bForm, bIdx, result, hit, reqs, yielded,
                    stats, last, answered, exhaustedAt, routes>>

NextAirport ==
  \/ \E id \in TimedIds : calls < MaxCalls /\ Start(Caller, id)
  \/ \E o \in TimedOpenSky, rnd \in Randoms : OpenSkyResponse(Caller, o, rnd)
  \/ \E o \in TimedAviation, rnd \in Randoms : AviationResponse(Caller, o, rnd)
  \/ Finish(Caller)
  \/ \E iataCode \in AirportCodes, o \in AirportOutcomes :
       calls < MaxCalls /\ GetAirportInfo(iataCode, o)

SpecAirport == InitQuota /\ [][NextAirport]_vars

\* ---- SpecBudget: one getFlightInfo call on a service constructed with no
\* request used
BudgetAviation ==
  { o \in AviationOutcomes :
      \/ o.kind \in {"empty", "http429", "timeout"}
      \/ o.kind = "data" /\ Val(o.flight).iata = S_AI101 }

InitBudget ==
  Constructed(0, {0}, {Null}, {Null}, {FALSE})

NextBudget ==
  \/ \E id \in TimedIds : calls = 0 /\ Start(Caller, id)
  \/ \E o \in TimedOpenSky, rnd \in Randoms : OpenSkyResponse(Caller, o, rnd)
  \/ \E o \in BudgetAviation, rnd \in Randoms : AviationResponse(Caller, o, rnd)
  \/ Finish(Caller)

SpecBudget == InitBudget /\ [][NextBudget]_vars

\* ---- the claims
\* the fields of a FlightRecord and the source tags
FlightRecordFields == {"flightNumber", "source", "live", "status", "position", "sched"}
ProviderSources == {"opensky-enriched", "aviationstack", "aviationstack-opensky-hybrid"}
MockSources == {"mock", "mock-accurate"}
IsFlightRecord(r) ==
  /\ DOMAIN r = FlightRecordFields
  /\ r.source \in ProviderSources \cup MockSources
InCall == {"A_tok", "A_get", "B_get"}

\* C1: whatever the identifier and whatever the providers and the token
\* endpoint answer, no getFlightInfo call raises to its caller, and a call that
\* has completed has returned a FlightRecord.
C1_AlwaysReturnsRecord ==
  \A p \in Procs :
    /\ pc[p] # "raised"
    /\ pc[p] = "done" => result[p] # Null /\ IsFlightRecord(Val(result[p]))

\* a call whose token exchange, OpenSky searches and AviationStack searches
\* all came to nothing has returned
C1_Witness ==
  \E p \in Procs :
    /\ pc[p] = "done" /\ ~hit[p] /\ yielded[p] = {}
    /\ reqs[p].tok /\ reqs[p].A /\ reqs[p].B
    /\ result[p] # Null

\* C2: every getFlightInfo call that is waiting for the token endpoint, OpenSky
\* or AviationStack returns a record in the end, each request being answered
\* or timed out.
C2_Terminates ==
  \A p \in Procs : (pc[p] \in InCall) ~> (pc[p] = "done" /\ result[p] # Null)

\* a call has returned after asking both providers
C2_Witness ==
  \E p \in Procs :
    /\ pc[p] = "done" /\ ~hit[p]
    /\ reqs[p].A /\ reqs[p].B
    /\ yielded[p] = {"B"}

\* this step is call p entering getFlightInfo(id)
Starts(p, id) == pc[p] = "idle" /\ pc'[p] # "idle" /\ arg'[p] = id
\* this step is call p returning from getFlightInfo
ReturnsNow(p) == pc[p] # "done" /\ pc'[p] = "done"
\* the keys getFlightInfo(id) reads and writes: the uppercased, trimmed
\* identifier and its normalized form
OriginalKey(id) == toUpperCase(trim(toUpperCase(id)))
NormalizedKey(id) == toUpperCase(Norm[id].normalized)
\* this step served call p from the cache: record rec, no request, quota as it was
ServedFromCache(p, rec) ==
  /\ pc'[p] = "done" /\ hit'[p]
  /\ result'[p] = Some(rec)
  /\ reqs'[p] = NoReqs
  /\ usage' = usage
\* the entry under key k is younger than the TTL
Fresh(k) == cache[k] # Null /\ now - Val(cache[k]).timestamp < cacheTTL

\* C3, as claimed: if getFlightInfo(x) returned R at t0 and the cache was not
\* cleared since, every getFlightInfo(x) started while now - t0 < cacheTTL returns
\* R, sends no request to OpenSky, AviationStack or the token endpoint and
\* leaves the quota count as it was.
C3_AsClaimed ==
  [][\A p \in Procs, id \in Ids :
       (/\ Starts(p, id)
        /\ last[id] # Null
        /\ now - Val(last[id]).at < cacheTTL)
       => ServedFromCache(p, Val(last[id]).data)]_vars

\* C3, amended: t0 is the time of the return that stored R, a return not served
\* from the cache, and the entries it wrote are still in the cache.
C3_FromStore ==
  [][\A p \in Procs, id \in Ids :
       (/\ Starts(p, id)
        /\ last[id] # Null
        /\ Val(last[id]).stored # Null
        /\ now - Val(Val(last[id]).stored) < cacheTTL
        /\ \A k \in {OriginalKey(id), NormalizedKey(id)} :
             cache[k] = Some([data |-> Val(last[id]).data,
                              timestamp |-> Val(Val(last[id]).stored)]))
       => ServedFromCache(p, Val(last[id]).data)]_vars

\* a call was served from the cache minutes after the return that stored the
\* record
C3_Witness ==
  \E p \in Procs :
    /\ pc[p] = "done" /\ hit[p]
    /\ last[arg[p]] # Null
    /\ Val(last[arg[p]]).stored # Null
    /\ now - Val(Val(last[arg[p]]).stored) \in 1..(cacheTTL - 1)
    /\ result[p] = Some(Val(last[arg[p]]).data)

\* C4: a getFlightInfo call that finds an entry younger than cacheTTL under a
\* key it looks up returns that entry's record; an entry it looks up at the age
\* of cacheTTL or more is not returned and is deleted by the lookup; no call is
\* served from the cache but by an entry younger than cacheTTL.
C4_CacheTTL ==
  [][\A p \in Procs, id \in Ids :
       Starts(p, id) =>
         LET k1 == OriginalKey(id)
             k2 == NormalizedKey(id)
         IN /\ Fresh(k1) => hit'[p] /\ result'[p] = Some(Val(cache[k1]).data)
            /\ cache[k1] # Null /\ ~Fresh(k1) => cache'[k1] = Null
            /\ ~Fresh(k1) /\ Fresh(k2)
                 => hit'[p] /\ result'[p] = Some(Val(cache[k2]).data)
            /\ ~Fresh(k1) /\ cache[k2] # Null /\ ~Fresh(k2) => cache'[k2] = Null
            /\ hit'[p] => \E k \in {k1, k2} :
                            Fresh(k) /\ result'[p] = Some(Val(cache[k]).data)
            /\ \A k \in Keys : Fresh(k) => cache'[k] = cache[k]]_vars

\* an entry was looked up at the age of cacheTTL and is gone, the call going on
\* to the providers
C4_Witness ==
  \E p \in Procs :
    /\ pc[p] = "A_get" /\ aIdx[p] = 1
    /\ last[arg[p]] # Null
    /\ Val(last[arg[p]]).stored = Some(now - cacheTTL)
    /\ cache[OriginalKey(arg[p])] = Null

\* C5, as claimed: a call for which OpenSky answered with a live match, while
\* AviationStack may be used, returns the merged record tagged as hybrid.
C5_HybridMerge ==
  \A p \in Procs :
    (/\ pc[p] = "done" /\ ~hit[p]
     /\ "A" \in yielded[p]
     /\ canUseAviationStack(apiKey, usage, now).ret)
    => Val(result[p]).source = "aviationstack-opensky-hybrid"

\* C6: the step in which OpenSky answers with a match returns that match, live,
\* cached under both identifiers, with the quota as it was and no request sent
\* to AviationStack by the call; no call waits for AviationStack holding an
\* OpenSky match.
C6_LiveReturnsAtOnce ==
  [][\A p \in Procs :
       /\ (pc[p] = "A_get" /\ "A" \in yielded'[p])
          => /\ pc'[p] = "done"
             /\ Truthy(Val(result'[p]).live)
             /\ Val(result'[p]).source = "opensky-enriched"
             /\ ~reqs'[p].B
             /\ usage' = usage
             /\ \A k \in {OriginalKey(arg[p]), NormalizedKey(arg[p])} :
                  cache'[k] = Some([data |-> Val(result'[p]), timestamp |-> now])
       /\ pc'[p] = "B_get" => osr'[p] = Null /\ yielded'[p] = {}]_vars

\* a call returned OpenSky's match without asking AviationStack while the quota
\* had room
C6_Witness ==
  \E p \in Procs :
    /\ pc[p] = "done" /\ ~hit[p]
    /\ yielded[p] = {"A"}
    /\ ~reqs[p].B
    /\ usage.count < limit

\* C7, as claimed: a call that neither provider answered with a flight returns
\* a record whose source is "mock" and whose live flag is false.
C7_SourceMock ==
  \A p \in Procs :
    (pc[p] = "done" /\ ~hit[p] /\ yielded[p] = {})
    => Val(result[p]).source = "mock" /\ Val(result[p]).live = "false"

\* C7, amended: the source is "mock-accurate" for the identifiers of the
\* knownFlights table and "mock" for every other, neither a provider's tag, and
\* the live flag is false.
C7_SourceMockOrAccurate ==
  \A p \in Procs :
    (pc[p] = "done" /\ ~hit[p] /\ yielded[p] = {})
    => /\ Val(result[p]).source =
            IF Norm[arg[p]].normalized \in knownFlights THEN "mock-accurate" ELSE "mock"
       /\ Val(result[p]).source \notin ProviderSources
       /\ Val(result[p]).live = "false"

\* a call for a flight outside the knownFlights table got nothing from either
\* provider, both asked
C7_Witness ==
  \E p \in Procs :
    /\ pc[p] = "done" /\ ~hit[p] /\ yielded[p] = {}
    /\ reqs[p].A /\ reqs[p].B
    /\ Norm[arg[p]].normalized \notin knownFlights
    /\ Val(result[p]).source = "mock"

\* C8: when a call that was not served from the cache returns R, the cache
\* holds R under the uppercased, trimmed identifier and under the normalized
\* identifier.
C8_CachedUnderBothKeys ==
  [][\A p \in Procs :
       (ReturnsNow(p) /\ ~hit'[p])
       => \A k \in {OriginalKey(arg[p]), NormalizedKey(arg[p])} :
            /\ cache'[k] # Null
            /\ Val(cache'[k]).data = Val(result'[p])]_vars

\* a call for an ICAO-form identifier has returned a provider's record, the two
\* keys differing
C8_Witness ==
  \E p \in Procs :
    /\ pc[p] = "done" /\ ~hit[p] /\ yielded[p] # {}
    /\ OriginalKey(arg[p]) # NormalizedKey(arg[p])
    /\ cache[OriginalKey(arg[p])] = cache[NormalizedKey(arg[p])]
    /\ cache[OriginalKey(arg[p])] # Null

\* C9, as claimed: under any interleaving of concurrent calls the quota count
\* never exceeds the limit.
C9_QuotaWithinLimit == usage.count <= limit

\* C10, as claimed: the canUseAviationStack() call of a getUsageStats() made with
\* an API key, when the reset date is set and in the past, whatever the count, sets the count to 0, moves the reset
\* date to the start of the next month, after now, and returns true.
C10_ResetFirst ==
  [][(/\ calls' = calls + 1 /\ pc' = pc
      /\ apiKey # PlaceholderKey
      /\ usage.resetDate # Null
      /\ now > Val(usage.resetDate))
     => /\ usage'.count = 0
        /\ usage'.resetDate = Some(NextMonthStart(now))
        /\ Val(usage'.resetDate) > now
        /\ Val(stats').available]_vars

\* C11, as claimed: once the count has reached the limit and the time has
\* passed into a later month, the canUseAviationStack() call of a
\* getUsageStats() made with an API key returns true and leaves the count at 0,
\* whether or not a reset date was configured.
C11_ExhaustionEndsWithMonth ==
  [][(/\ calls' = calls + 1 /\ pc' = pc
      /\ apiKey # PlaceholderKey
      /\ exhaustedAt # Null
      /\ Val(exhaustedAt) \div MonthLen < now \div MonthLen)
     => /\ Val(stats').available
        /\ usage'.count = 0]_vars

\* the AviationStack request call p waited for has settled
AviationSettled(p) ==
  /\ pc[p] = "B_get"
  /\ pc'[p] # "B_get" \/ bIdx'[p] # bIdx[p] \/ bForm'[p] # bForm[p]

\* the token exchange call p waited for has settled
ExchangeSettled(p) == pc[p] = "A_tok" /\ pc'[p] = "A_get"

NextAviationRequest(p) ==
  /\ pc'[p] = "B_get"
  /\ pc[p] = "B_get" => bIdx'[p] # bIdx[p] \/ bForm'[p] # bForm[p]

\* C13: when an AviationStack request is refused with HTTP 429 or 402, the
\* count is the limit at once, the call that made the request issues no other
\* AviationStack request, neither for the variations left nor for the original
\* identifier, and it returns a record.
C13_RateLimitExhausts ==
  [][\A p \in Procs :
       (AviationSettled(p) /\ answered'[p] = "B:limit")
         => /\ usage'.count = limit
            /\ ~NextAviationRequest(p)
            /\ pc'[p] = "done"
            /\ result'[p] # Null /\ IsFlightRecord(Val(result'[p]))]_vars

\* a call made with an ICAO-form identifier has returned a record on a refusal
\* with 429 or 402
C13_Witness ==
  /\ usage.count = limit
  /\ \E p \in Procs :
       /\ answered[p] = "B:limit"
       /\ pc[p] = "done" /\ reqs[p].B /\ Norm[arg[p]].isIcao
       /\ result[p] # Null /\ Val(result[p]).source \in MockSources

\* C14: the clock standing still and no reset date set, a call that comes to
\* the AviationStack step, or to a further AviationStack request, while the
\* count is at or above the limit issues no AviationStack request; a call that
\* comes to the step so leaves the count as it is; and a call that returns
\* without a flight from AviationStack while the count is at or above the limit
\* returns OpenSky's record or a synthetic one.
C14_ExhaustedSkipsProviderB ==
  [][\A p \in Procs :
       /\ NextAviationRequest(p) => usage'.count < limit
       /\ (pc[p] = "A_get" /\ pc'[p] \notin {"A_get", "A_tok"} /\ usage.count >= limit)
            => /\ usage' = usage
               /\ pc'[p] = "done"
       /\ (/\ pc[p] \in {"A_get", "B_get"} /\ pc'[p] = "done"
           /\ usage'.count >= limit /\ "B" \notin yielded'[p])
            => /\ ~NextAviationRequest(p)
               /\ Val(result'[p]).source \in {"opensky-enriched"} \cup MockSources]_vars

\* a call that OpenSky gave no flight has returned a synthetic record without
\* an AviationStack request, the count being at the limit
C14_Witness ==
  /\ usage.count >= limit
  /\ \E p \in Procs :
       /\ pc[p] = "done" /\ ~hit[p] /\ reqs[p].A /\ ~reqs[p].B
       /\ yielded[p] = {}
       /\ Val(result[p]).source \in MockSources

\* C15, as claimed: when the environment sets no AVIATIONSTACK_API_KEY, no call
\* has issued an AviationStack request or waits for the answer to one.
C15_NoKeyNoProviderB ==
  apiKey = apiKeyOf(Null)
    => \A p \in Procs : pc[p] # "B_get" /\ ~reqs[p].B

\* call p calls makeOpenSkyRequest, and with it getOpenSkyAccessToken
CallsGetToken(p) ==
  /\ pc[p] \in {"idle", "A_get"}
  /\ pc'[p] \in {"A_get", "A_tok"}
  /\ pc[p] = "A_get" => aIdx'[p] # aIdx[p]

\* the lifetimes the token endpoint declares, in minutes
DeclaredLifetimes ==
  { IF o.expires_in # Null THEN Val(o.expires_in) ELSE DefaultExpiresIn :
      o \in { t \in TokenOutcomes : t.kind = "ok" } }

C17_RefreshInsideBuffer ==
  [][\A p \in Procs :
       (CallsGetToken(p) /\ creds /\ token.expiry = Some(now + 4))
         => pc'[p] = "A_tok"]_vars

\* C17, amended: a stored token that the token endpoint lets expire at now + 4
\* minutes, its stored expiry therefore now + 4 - 5 minutes, is not handed out:
\* getOpenSkyAccessToken() makes an exchange.
C17_RefreshInsideDeclaredLifetime ==
  [][\A p \in Procs :
       (/\ CallsGetToken(p) /\ creds /\ token.expiry # Null
        /\ Val(token.expiry) + RefreshBuffer = now + 4)
         => pc'[p] = "A_tok"]_vars

\* the call is exchanging while the stored token has 4 minutes left at the
\* token endpoint
C17_Witness ==
  /\ token.accessToken # Null
  /\ Val(token.expiry) + RefreshBuffer = now + 4
  /\ \E p \in Procs : pc[p] = "A_tok"

\* C18, as claimed: at any time at most one call is waiting for the answer of
\* the token endpoint.
C18_OneExchangeInFlight ==
  Cardinality({ p \in Procs : pc[p] = "A_tok" }) <= 1

\* C19: a call whose getOpenSkyAccessToken() gave no token, the credentials not
\* being set or the exchange having failed or answered without access_token,
\* does not raise and issues the OpenSky request without Authorization header,
\* whatever token is stored.
C19_NoTokenNoHeader ==
  [][/\ \A p \in Procs : pc'[p] # "raised"
     /\ \A p \in Procs :
          (pc[p] = "A_tok" /\ pc'[p] # "A_tok" /\ answered'[p] = "tok:failed")
            => pc'[p] = "A_get" /\ reqs'[p].A /\ auth'[p] = Null
     /\ \A p \in Procs :
          (CallsGetToken(p) /\ ~creds /\ ~tokenValid(token, now))
            => pc'[p] = "A_get" /\ reqs'[p].A /\ auth'[p] = Null]_vars

\* an exchange has failed while an expired token was stored, and the OpenSky
\* request has gone out without a token
C19_Witness ==
  /\ token.accessToken # Null
  /\ now >= Val(token.expiry)
  /\ \E p \in Procs :
       /\ answered[p] = "tok:failed"
       /\ pc[p] = "A_get" /\ reqs[p].A /\ auth[p] = Null

\* C20: normalizeFlightNumber applied to the `normalized` field of one of its
\* results returns that identifier as `normalized` again, with isIcao false.
C20_NormalizeIdempotent ==
  (probe # Null /\ Val(probe).of # Null)
    => /\ Val(probe).x = Val(Val(probe).of).normalized
       /\ Val(probe).y.normalized = Val(Val(probe).of).normalized
       /\ ~Val(probe).y.isIcao

\* an ICAO-form identifier was converted, and the result normalized again
C20_Witness ==
  /\ probe # Null
  /\ Val(probe).of # Null
  /\ Val(Val(probe).of).isIcao
  /\ Val(Val(probe).of).original = S_AIC101
  /\ Val(probe).y.normalized = S_AI101

\* C21, as claimed: every record a call has returned with live = true holds a
\* position.
C21_LiveHasPosition ==
  \A p \in Procs :
    (pc[p] = "done" /\ Val(result[p]).live = "true")
      => Val(result[p]).position # Null

\* the registered airlines whose ICAO code is `code`
IcaoAirlines(code) == { a \in airlineData : a[2] = code }
\* a remainder made of digits
Numeric(s) == s # <<>> /\ \A i \in 1..Len(s) : s[i] \in Digits

\* C22, as claimed: normalizeFlightNumber converts exactly the identifiers
\* whose first 3 characters, upper-cased and trimmed, are the ICAO code of a
\* registered airline and whose remainder is numeric, putting the airline's
\* IATA code for the prefix with isIcao true; for every other identifier
\* `normalized` is the upper-cased, trimmed identifier and isIcao is false.
C22_ConvertsOnlyIcao ==
  probe # Null
    => LET n == trim(toUpperCase(Val(probe).x))
           prefix == substring(n, 0, 3)
           rest == substringFrom(n, 3)
           y == Val(probe).y
       IN IF Len(n) >= 4 /\ IcaoAirlines(prefix) # {} /\ Numeric(rest)
          THEN /\ y.isIcao
               /\ \E a \in IcaoAirlines(prefix) : y.normalized = a[1] \o rest
          ELSE /\ ~y.isIcao
               /\ y.normalized = n

\* the instant that counts: the actual one when present, else the scheduled one
InstantOf(actual, scheduled) == IF actual # Null THEN Val(actual) ELSE Val(scheduled)

\* C23, as claimed: the status of an AviationStack record is landed if the
\* arrival instant (actual when present, else scheduled) is in the past, else
\* in-flight if the departure instant (actual when present, else scheduled) is
\* in the past, else scheduled.
C23_StatusFromInstants ==
  probe # Null
    => LET flight == Val(probe).x.flight
           t == Val(probe).x.now
           arrival == InstantOf(flight.arrActual, flight.arrScheduled)
           departure == InstantOf(flight.depActual, flight.depScheduled)
       IN Val(probe).y.status =
            IF t > arrival THEN "landed"
            ELSE IF t > departure THEN "in-flight"
            ELSE "scheduled"

\* C24: a failed token exchange leaves the stored token and its expiry as they
\* were and only the call that made it goes on without a token; the next
\* getOpenSkyAccessToken() of that call, the credentials being set, makes a new
\* exchange.
C24_FailedExchangeNotSticky ==
  [][\A p \in Procs :
       /\ (ExchangeSettled(p) /\ answered'[p] = "tok:failed")
            => /\ token' = token
               /\ auth'[p] = Null
               /\ \A q \in Procs \ {p} : auth'[q] = auth[q] /\ pc'[q] = pc[q]
       /\ (CallsGetToken(p) /\ answered[p] = "tok:failed" /\ creds)
            => pc'[p] = "A_tok" /\ reqs'[p].tok]_vars

\* no token was ever stored, the first request of the call has been answered,
\* so its exchange failed, and the call is exchanging again for its second
\* request
C24_Witness ==
  /\ creds
  /\ token.accessToken = Null
  /\ \E p \in Procs : pc[p] = "A_tok" /\ aIdx[p] = 2

\* the request makeOpenSkyRequest sends: the endpoint and the Authorization
\* header
OpenSkyRequest(authorization) ==
  [endpoint |-> "/states/all", authorization |-> authorization]

\* the OpenSky request of call p is answered
OpenSkySettled(p) ==
  pc[p] = "A_get" /\ (pc'[p] # "A_get" \/ aIdx'[p] # aIdx[p])

\* C25, as claimed: with OpenSky failing every request (SpecOutage), the step
\* in which a request of a call fails does not send the same request again for
\* that call.
C25_NoRetryInPlace ==
  [][\A p \in Procs :
       OpenSkySettled(p)
         => ~(/\ pc'[p] = "A_get"
              /\ OpenSkyRequest(auth'[p]) = OpenSkyRequest(auth[p]))]_vars

\* C26, as claimed: whenever the cache holds entries younger than cacheTTL
\* under both the original key and the normalized key of an ICAO-form
\* identifier, the two entries hold the same record.
C26_BothKeysSamePayload ==
  \A id \in Ids :
    (/\ Norm[id].isIcao
     /\ Fresh(OriginalKey(id))
     /\ Fresh(NormalizedKey(id)))
      => Val(cache[OriginalKey(id)]).data = Val(cache[NormalizedKey(id)]).data

\* C27, as claimed: the route table is at all times what it was at startup,
\* the order of every carrier's list included.
C27_RegistriesReadOnly ==
  routes = routeData

\* C28, as claimed: getAircraft asked again for the same callsign and icao24
\* answers the same aircraft name and model.
C28_AircraftDeterministic ==
  (probe # Null /\ Val(probe).f = "getAircraft" /\ Val(probe).of # Null)
    => /\ Val(probe).y.name = Val(Val(probe).of).name
       /\ Val(probe).y.model = Val(Val(probe).of).model

\* this step is a getAirportInfo call that sent its request to AviationStack
AirportRequested ==
  /\ probe' # probe
  /\ probe' # Null
  /\ Val(probe').f = "getAirportInfo"
  /\ Val(probe').y.requested

\* C29, as claimed: a request to AviationStack is sent by getAirportInfo, as
\* by getFlightInfo, only when canUseAviationStack() allows it, and it raises
\* the quota count.
C29_EveryMeteredRequestCounted ==
  [][/\ AirportRequested
        => /\ canUseAviationStack(apiKey, usage, now).ret
           /\ usage'.count > usage.count
     /\ \A p \in Procs :
          NextAviationRequest(p) => canUseAviationStack(apiKey, usage, now).ret]_vars

\* the searches of getFlightFromOpenSky and the searchVariations of
\* getFlightFromAviationStack
openSkySearches == 4
searchVariations == 8

\* the AviationStack requests a call may issue for identifier id: the
\* variations for the normalized form, and for the original form of an
\* ICAO-form identifier
Budget(id) == IF Norm[id].isIcao THEN 2 * searchVariations ELSE searchVariations

\* the AviationStack requests call p has issued
IssuedAviation(p) ==
  IF bForm[p] = 0 THEN 0 ELSE (bForm[p] - 1) * searchVariations + bIdx[p]

\* call p issues at most 4 OpenSky requests and at most 8 AviationStack
\* requests per identifier form, the second form for ICAO-form input only
RequestsBounded(p) ==
  /\ aIdx[p] <= openSkySearches
  /\ bIdx[p] <= searchVariations
  /\ bForm[p] <= 2
  /\ bForm[p] = 2 => Norm[arg[p]].isIcao
  /\ IssuedAviation(p) <= Budget(arg[p])

\* C30, as claimed: one getFlightInfo call on a service with count 0 issues at
\* most 4 OpenSky requests and at most 16 AviationStack requests, and the count
\* never exceeds 8 for an IATA-form identifier and 16 for an ICAO-form one.
C30_RequestBudget ==
  \A p \in Procs :
    arg[p] # <<>>
      => /\ RequestsBounded(p)
         /\ usage.count <= Budget(arg[p])

\* C30, amended: the same, unless a request of the call was refused with HTTP
\* 429 or 402, which sets the count to the limit.
C30_RequestBudgetUnlessRefused ==
  \A p \in Procs :
    arg[p] # <<>>
      => /\ RequestsBounded(p)
         /\ \/ usage.count <= Budget(arg[p])
            \/ answered[p] = "B:limit" /\ usage.count = limit

\* a call for an ICAO-form identifier has had all its 16 AviationStack
\* requests answered without a flight, and the count is 16
C30_Witness ==
  \E p \in Procs :
    /\ pc[p] = "done"
    /\ Norm[arg[p]].isIcao
    /\ reqs[p].B
    /\ usage.count = 2 * searchVariations

====
